---------------------------- MODULE Spec2Model ----------------------------
(***************************************************************************)
(* Model of tv_rename.py: the retry decorator, the two storage backends,   *)
(* TVRenamer.parse_episode / generate_new_name / process_directory /       *)
(* apply_changes, create_storage, and main with its exit codes.            *)
(*                                                                         *)
(* A file name is a sequence of characters; a character is a one-element   *)
(* string.  The three CJK characters of PATTERNS are written               *)
(*   "DI" = U+7B2C,  "JI" = U+96C6,  "HUA" = U+8A71.                       *)
(* Durations are in tenths of a second (delay=1.0 is 10, delay=1.5 is 15). *)
(***************************************************************************)
EXTENDS Integers, Sequences, FiniteSets, TLC

VARIABLES
    storage_type,   \* "alist" | "baidu": the backend create_storage built
    template,       \* config["name_template"], a sequence of template parts
    remote,         \* the entries of the remote directory, in listing order
    pc,             \* position of the run
    files,          \* process_directory: the listing list_files returned
    episodes,       \* process_directory: episodes
    changes,        \* process_directory: changes, later apply_changes' input
    results,        \* apply_changes: results
    idx,            \* apply_changes: number of changes already processed
    dry_run,        \* config["dry_run"]
    cfg,            \* the arguments of the retry decorator in force
    wr,             \* the frame of retry.wrapper
    skipped,        \* process_directory: skipped
    unparseable,    \* process_directory: unparseable
    rename_calls,   \* the old names storage.rename_file was called with, in order
    fname,          \* parse_episode's argument
    parsed,         \* parse_episode's return value (with the rules it tried)
    new_name,       \* generate_new_name's return value
    config,         \* main: the credentials and the interactive flag of config
    storage,        \* main: what create_storage returned or raised
    exit_code,      \* the exit status of the process, -1 while it runs
    interrupt,      \* the step at which a KeyboardInterrupt arrived, "" if none
    response        \* main: the answer at the confirmation prompt, "" before it

vars == <<storage_type, template, remote, pc, files, episodes, changes, skipped,
          unparseable, results, idx, dry_run, cfg, wr, rename_calls, fname,
          parsed, new_name, config, storage, exit_code, interrupt,
          response>>

\* the locals of process_directory, of apply_changes, of the retry wrapper
scanVars == <<files, episodes, changes, skipped, unparseable>>
applyVars == <<results, idx, rename_calls>>
retryVars == <<cfg, wr>>
confVars == <<storage_type, template, dry_run>>
parseVars == <<fname, parsed, new_name>>
mainVars == <<config, storage, exit_code, interrupt, response>>

\* None where an EpisodeInfo is expected, and where a name is expected
None == [none |-> TRUE]
NoName == <<"<None>">>

-----------------------------------------------------------------------------
(* Characters and pathlib.Path                                             *)

Digits == {"0", "1", "2", "3", "4", "5", "6", "7", "8", "9"}

Spaces == {" "}

\* str.lower() / re.IGNORECASE on one character
Lower(c) ==
    CASE c = "A" -> "a" [] c = "B" -> "b" [] c = "C" -> "c" [] c = "D" -> "d"
      [] c = "E" -> "e" [] c = "F" -> "f" [] c = "G" -> "g" [] c = "H" -> "h"
      [] c = "I" -> "i" [] c = "J" -> "j" [] c = "K" -> "k" [] c = "L" -> "l"
      [] c = "M" -> "m" [] c = "N" -> "n" [] c = "O" -> "o" [] c = "P" -> "p"
      [] c = "Q" -> "q" [] c = "R" -> "r" [] c = "S" -> "s" [] c = "T" -> "t"
      [] c = "U" -> "u" [] c = "V" -> "v" [] c = "W" -> "w" [] c = "X" -> "x"
      [] c = "Y" -> "y" [] c = "Z" -> "z" [] OTHER -> c

LowerStr(s) == [k \in 1..Len(s) |-> Lower(s[k])]

\* Path(name).name: the path "." has no final component
PathName(s) == IF s = <<".">> THEN <<>> ELSE s

\* index of the last "." of a name, 0 when there is none
LastDot(s) ==
    LET D == {k \in 1..Len(s) : s[k] = "."}
    IN  IF D = {} THEN 0 ELSE CHOOSE k \in D : \A j \in D : j <= k

\* Path(name).suffix: from the last dot, unless the dot leads or ends the name
Suffix(s) ==
    LET n == PathName(s)
        d == LastDot(n)
    IN  IF 1 < d /\ d < Len(n) THEN SubSeq(n, d, Len(n)) ELSE <<>>

\* Path(name).stem
Stem(s) ==
    LET n == PathName(s)
        d == LastDot(n)
    IN  IF 1 < d /\ d < Len(n) THEN SubSeq(n, 1, d - 1) ELSE n

\* VIDEO_EXTS with ".txt" in the place of ".ts"
MutVIDEO_EXTS_Txt ==
    { <<".", "m", "p", "4">>, <<".", "m", "k", "v">>, <<".", "a", "v", "i">>,
      <<".", "m", "o", "v">>, <<".", "w", "m", "v">>, <<".", "f", "l", "v">>,
      <<".", "w", "e", "b", "m">>, <<".", "m", "4", "v">>, <<".", "t", "x", "t">>,
      <<".", "r", "m", "v", "b">> }

VIDEO_EXTS ==
    { <<".", "m", "p", "4">>, <<".", "m", "k", "v">>, <<".", "a", "v", "i">>,
      <<".", "m", "o", "v">>, <<".", "w", "m", "v">>, <<".", "f", "l", "v">>,
      <<".", "w", "e", "b", "m">>, <<".", "m", "4", "v">>, <<".", "t", "s">>,
      <<".", "r", "m", "v", "b">> }

\* int() of a run of decimal digits
DigitVal(c) ==
    CASE c = "0" -> 0 [] c = "1" -> 1 [] c = "2" -> 2 [] c = "3" -> 3
      [] c = "4" -> 4 [] c = "5" -> 5 [] c = "6" -> 6 [] c = "7" -> 7
      [] c = "8" -> 8 [] c = "9" -> 9

RECURSIVE ToInt(_)
ToInt(ds) ==
    IF ds = <<>> THEN 0
    ELSE 10 * ToInt(SubSeq(ds, 1, Len(ds) - 1)) + DigitVal(ds[Len(ds)])

-----------------------------------------------------------------------------
(* re.search for the six PATTERNS (re.IGNORECASE)                          *)

\* length of the longest run of characters of S that starts at position i
RECURSIVE Run(_, _, _)
Run(s, i, S) ==
    IF i <= Len(s) /\ s[i] \in S THEN 1 + Run(s, i + 1, S) ELSE 0

\* the literal w (lower case) stands at position i, case-insensitively
Lit(s, i, w) ==
    /\ i + Len(w) - 1 <= Len(s)
    /\ \A k \in 1..Len(w) : Lower(s[i + k - 1]) = w[k]

NoMatch == <<>>

\* [Ss](\d+)[Ee](\d+)
Match1(s, i) ==
    LET d1 == Run(s, i + 1, Digits)
        e  == i + 1 + d1
        d2 == Run(s, e + 1, Digits)
    IN  IF /\ Lit(s, i, <<"s">>) /\ d1 >= 1
           /\ Lit(s, e, <<"e">>) /\ d2 >= 1
        THEN <<SubSeq(s, i + 1, i + d1), SubSeq(s, e + 1, e + d2)>>
        ELSE NoMatch

\* [Ss]eason\s*(\d+)[\s_.]*[Ee]pisode\s*(\d+)
Match2(s, i) ==
    LET a  == i + 6
        s1 == Run(s, a, Spaces)
        d1 == Run(s, a + s1, Digits)
        b  == a + s1 + d1
        s2 == Run(s, b, Spaces \cup {"_", "."})
        e  == b + s2
        c  == e + 7
        s3 == Run(s, c, Spaces)
        d2 == Run(s, c + s3, Digits)
    IN  IF /\ Lit(s, i, <<"s", "e", "a", "s", "o", "n">>) /\ d1 >= 1
           /\ Lit(s, e, <<"e", "p", "i", "s", "o", "d", "e">>) /\ d2 >= 1
        THEN <<SubSeq(s, a + s1, b - 1), SubSeq(s, c + s3, c + s3 + d2 - 1)>>
        ELSE NoMatch

\* (\d{1,2})x(\d{2}): two season digits are tried before one
Match3(s, i) ==
    LET XTail(x) == /\ Lit(s, x, <<"x">>)
                    /\ x + 2 <= Len(s)
                    /\ s[x + 1] \in Digits /\ s[x + 2] \in Digits
    IN  IF i <= Len(s) /\ s[i] \in Digits
        THEN IF i + 1 <= Len(s) /\ s[i + 1] \in Digits /\ XTail(i + 2)
             THEN <<SubSeq(s, i, i + 1), SubSeq(s, i + 3, i + 4)>>
             ELSE IF XTail(i + 1)
                  THEN <<SubSeq(s, i, i), SubSeq(s, i + 2, i + 3)>>
                  ELSE NoMatch
        ELSE NoMatch

\* DI\s*(\d+)\s*[JI HUA]
Match4(s, i) ==
    LET s1 == Run(s, i + 1, Spaces)
        d1 == Run(s, i + 1 + s1, Digits)
        b  == i + 1 + s1 + d1
        s2 == Run(s, b, Spaces)
    IN  IF /\ Lit(s, i, <<"DI">>) /\ d1 >= 1
           /\ b + s2 <= Len(s) /\ s[b + s2] \in {"JI", "HUA"}
        THEN <<SubSeq(s, i + 1 + s1, b - 1)>>
        ELSE NoMatch

\* [Ee][Pp]?(\d{2,})
Match5(s, i) ==
    LET p  == IF Lit(s, i + 1, <<"p">>) THEN 1 ELSE 0
        d1 == Run(s, i + 1 + p, Digits)
    IN  IF Lit(s, i, <<"e">>) /\ d1 >= 2
        THEN <<SubSeq(s, i + 1 + p, i + p + d1)>>
        ELSE NoMatch

\* (\d{2,})\s*[JI HUA]
Match6(s, i) ==
    LET d1 == Run(s, i, Digits)
        s1 == Run(s, i + d1, Spaces)
    IN  IF /\ d1 >= 2
           /\ i + d1 + s1 <= Len(s) /\ s[i + d1 + s1] \in {"JI", "HUA"}
        THEN <<SubSeq(s, i, i + d1 - 1)>>
        ELSE NoMatch

MatchAt(r, s, i) ==
    CASE r = 1 -> Match1(s, i) [] r = 2 -> Match2(s, i) [] r = 3 -> Match3(s, i)
      [] r = 4 -> Match4(s, i) [] r = 5 -> Match5(s, i) [] r = 6 -> Match6(s, i)

\* re.search(PATTERNS[r], s, re.IGNORECASE).groups(): the leftmost match
Search(r, s) ==
    LET M == {i \in 1..Len(s) : MatchAt(r, s, i) # NoMatch}
    IN  IF M = {} THEN NoMatch
        ELSE MatchAt(r, s, CHOOSE i \in M : \A j \in M : i <= j)

\* PATTERNS: the group count of each rule
PATTERNS == <<2, 2, 2, 1, 1, 1>>

-----------------------------------------------------------------------------
(* TVRenamer.parse_episode                                                 *)

EpisodeInfo(season, episode, original_name) ==
    [season |-> season, episode |-> episode, original_name |-> original_name]

\* the locals season and episode after rule r matched with these groups:
\* a two-group rule assigns both, a one-group rule assigns episode alone
SeasonAfter(r, groups, season) ==
    IF PATTERNS[r] = 2 /\ Len(groups) >= 2 THEN ToInt(groups[1]) ELSE season

EpisodeAfter(r, groups) ==
    IF PATTERNS[r] = 2 /\ Len(groups) >= 2 THEN ToInt(groups[2])
    ELSE ToInt(groups[1])

\* the body of "for pattern, group_count in self.PATTERNS" from rule r on;
\* season and episode are the locals the loop carries from rule to rule
\* (episode = None is carried as 0: "if episode" treats both alike), tried
\* the rules searched so far
RECURSIVE ParseLoop(_, _, _, _, _, _)
RECURSIVE ParseStep(_, _, _, _, _, _, _)
ParseLoop(filename, stem, r, season, episode, tried) ==
    IF r > Len(PATTERNS)
    THEN [info |-> None, tried |-> tried]
    ELSE ParseStep(filename, stem, r, season, episode, Append(tried, r),
                   Search(r, stem))

\* "if match: ... if episode: return EpisodeInfo(...)", else the next rule
ParseStep(filename, stem, r, season, episode, tried, groups) ==
    IF groups = NoMatch
    THEN ParseLoop(filename, stem, r + 1, season, episode, tried)
    ELSE IF EpisodeAfter(r, groups) # 0
    THEN [info  |-> EpisodeInfo(SeasonAfter(r, groups, season),
                                EpisodeAfter(r, groups), filename),
          tried |-> tried]
    ELSE ParseLoop(filename, stem, r + 1, SeasonAfter(r, groups, season),
                   EpisodeAfter(r, groups), tried)

\* season = 1, episode = None, then the loop
parse_episode_run(filename) == ParseLoop(filename, Stem(filename), 1, 1, 0, <<>>)

parse_episode(filename) == parse_episode_run(filename).info

-----------------------------------------------------------------------------
(* str.format on the name template, TVRenamer.generate_new_name            *)

\* a template is a sequence of parts: a literal character, or a replacement
\* field {name} / {name:0Wd}
Ch(c) == [kind |-> "lit", text |-> c, width |-> 0]
Fld(name, w) == [kind |-> "field", text |-> name, width |-> w]

RECURSIVE Decimal(_)
Decimal(n) ==
    LET d == n % 10
        c == CHOOSE x \in Digits : DigitVal(x) = d
    IN  IF n < 10 THEN <<c>> ELSE Append(Decimal(n \div 10), c)

RECURSIVE Zeros(_)
Zeros(k) == IF k <= 0 THEN <<>> ELSE <<"0">> \o Zeros(k - 1)

\* format(n, "0Wd"): zero-padded on the left to at least W characters
FormatInt(n, w) == LET ds == Decimal(n) IN Zeros(w - Len(ds)) \o ds

\* an exception raised by str.format; no file name holds this character
FormatError == <<"<KeyError>">>

\* template.format(season=..., episode=...): a field that names neither
\* keyword raises KeyError
RECURSIVE Format(_, _, _)
Format(tpl, season, episode) ==
    IF tpl = <<>> THEN <<>>
    ELSE LET p    == Head(tpl)
             rest == Format(Tail(tpl), season, episode)
             here == IF p.kind = "lit" THEN <<p.text>>
                     ELSE IF p.text = "season" THEN FormatInt(season, p.width)
                     ELSE IF p.text = "episode" THEN FormatInt(episode, p.width)
                     ELSE FormatError
         IN  IF here = FormatError \/ rest = FormatError THEN FormatError
             ELSE here \o rest

\* generate_new_name without its except clause: the failed rendering is used
\* as a name
MutGenerateNewName_NoCatch(info, tpl) ==
    LET ext == LowerStr(Suffix(info.original_name))
    IN  IF ext \notin VIDEO_EXTS THEN NoName
        ELSE Format(tpl, info.season, info.episode) \o ext

\* generate_new_name keeping the extension as the file spells it
MutGenerateNewName_KeepCase(info, tpl) ==
    LET ext == Suffix(info.original_name)
    IN  IF LowerStr(ext) \notin VIDEO_EXTS THEN NoName
        ELSE LET new_name_base == Format(tpl, info.season, info.episode)
             IN  IF new_name_base = FormatError THEN NoName
                 ELSE new_name_base \o ext

\* generate_new_name passing season and episode to format the wrong way round
MutGenerateNewName_Swapped(info, tpl) ==
    LET ext == LowerStr(Suffix(info.original_name))
    IN  IF ext \notin VIDEO_EXTS THEN NoName
        ELSE LET new_name_base == Format(tpl, info.episode, info.season)
             IN  IF new_name_base = FormatError THEN NoName
                 ELSE new_name_base \o ext

generate_new_name(info, tpl) ==
    LET ext == LowerStr(Suffix(info.original_name))
    IN  IF ext \notin VIDEO_EXTS THEN NoName
        ELSE LET new_name_base == Format(tpl, info.season, info.episode)
             IN  IF new_name_base = FormatError THEN NoName
                 ELSE new_name_base \o ext

-----------------------------------------------------------------------------
(* TVRenamer.process_directory: the loop over the listing                  *)

\* ScanNamed planning a change for every rendered name, equal or not
MutScanNamed_NoCompare(acc, filename, info, name) ==
    IF name = NoName
    THEN [acc EXCEPT !.episodes = Append(@, info)]
    ELSE [acc EXCEPT !.episodes = Append(@, info),
                     !.changes = Append(@, <<filename, name>>)]

\* the loop body once new_name is known: a change, or already named so
ScanNamed(acc, filename, info, name) ==
    IF name = NoName
    THEN [acc EXCEPT !.episodes = Append(@, info)]
    ELSE IF name # filename
    THEN [acc EXCEPT !.episodes = Append(@, info),
                     !.changes = Append(@, <<filename, name>>)]
    ELSE [acc EXCEPT !.episodes = Append(@, info),
                     !.skipped = Append(@, filename)]

\* the loop body for one file; info is parse_episode(filename), which the
\* code calls only past the extension test
ScanParsed(acc, filename, tpl, info) ==
    IF LowerStr(Suffix(filename)) \notin VIDEO_EXTS
    THEN [acc EXCEPT !.skipped = Append(@, filename)]
    ELSE IF info = None
    THEN [acc EXCEPT !.unparseable = Append(@, filename)]
    ELSE ScanNamed(acc, filename, info, generate_new_name(info, tpl))

\* the four lists the loop fills, after the files from position k on
RECURSIVE ScanFrom(_, _, _, _)
ScanFrom(fs, tpl, k, acc) ==
    IF k > Len(fs) THEN acc
    ELSE ScanFrom(fs, tpl, k + 1,
                  ScanParsed(acc, fs[k], tpl, parse_episode(fs[k])))

EmptyScan == [episodes |-> <<>>, changes |-> <<>>, skipped |-> <<>>,
              unparseable |-> <<>>]

Scan(fs, tpl) == ScanFrom(fs, tpl, 1, EmptyScan)

-----------------------------------------------------------------------------
(* Inputs                                                                  *)

\* stems are built from at most MaxFrags of these fragments
MaxFrags == 2

Fragments ==
    { <<"S", "0", "2", "E", "0", "5">>,
      <<"s", "2", "e", "0", "0">>,
      <<"S", "e", "a", "s", "o", "n", " ", "2", ".", "E", "p", "i", "s", "o", "d", "e", " ", "0", "3">>,
      <<"2", "x", "0", "7">>,
      <<"DI", "3", "JI">>,
      <<"DI", "0", "HUA">>,
      <<"E", "P", "1", "2">>,
      <<"1", "4", "HUA">>,
      <<"0", "0", "JI">>,
      <<"a", "_", "2", "0", "2", "0">>,
      <<".">> }

Exts ==
    { <<".", "m", "k", "v">>,
      <<".", "M", "K", "V">>,
      <<".", "t", "x", "t">>,
      <<>> }

RECURSIVE StemsOf(_)
StemsOf(n) ==
    IF n = 0 THEN {<<>>}
    ELSE StemsOf(n - 1) \cup {s \o f : s \in StemsOf(n - 1), f \in Fragments}

GenNames == {s \o e : s \in StemsOf(MaxFrags) \ {<<>>}, e \in Exts}

\* the names a directory listing is drawn from
DirNames ==
    { <<"S", "h", "o", "w", ".", "S", "0", "1", "E", "0", "2", ".", "1", "0", "8", "0", "p", ".", "m", "k", "v">>,
      <<"DI", "3", "JI", ".", "m", "p", "4">>,
      <<"n", "o", "t", "e", "s", ".", "S", "0", "1", "E", "0", "3", ".", "t", "x", "t">>,
      <<"m", "o", "v", "i", "e", "_", "2", "0", "2", "0", ".", "m", "p", "4">>,
      <<"S", "0", "1", "E", "0", "2", ".", "m", "k", "v">>,
      <<"S", "0", "2", "E", "0", "5", ".", "M", "K", "V">>,
      <<"S", "0", "1", "E", "0", "0", " ", "DI", "3", "JI", ".", "m", "k", "v">>,
      <<"S", "1", "0", "0", "E", "0", "7", ".", "a", "v", "i">> }

\* an entry of a remote directory, as both backends return it
Entry(name, is_dir) == [name |-> name, is_dir |-> is_dir]

\* the files of DirNames, and a folder whose name looks like an episode
DirEntries ==
    {Entry(n, FALSE) : n \in DirNames} \cup
    {Entry(<<"S", "0", "3", "E", "0", "1", ".", "m", "k", "v">>, TRUE)}

\* a directory holds at most MaxFiles entries, no name twice
MaxFiles == 2

RECURSIVE Listings(_)
Listings(n) ==
    IF n = 0 THEN {<<>>}
    ELSE Listings(n - 1) \cup
         {Append(l, f) : l \in {x \in Listings(n - 1) : Len(x) = n - 1},
                         f \in DirEntries}

DistinctNames(l) == \A a, b \in 1..Len(l) : a # b => l[a].name # l[b].name

DirListings == {l \in Listings(MaxFiles) : DistinctNames(l)}

\* "S{season:02d}E{episode:02d}", the default of load_config
DefaultTemplate == <<Ch("S"), Fld("season", 2), Ch("E"), Fld("episode", 2)>>

\* "Season {season} Episode {episode}", the other template interactive_setup shows
LongTemplate ==
    <<Ch("S"), Ch("e"), Ch("a"), Ch("s"), Ch("o"), Ch("n"), Ch(" "),
      Fld("season", 0), Ch(" "), Ch("E"), Ch("p"), Ch("i"), Ch("s"), Ch("o"),
      Ch("d"), Ch("e"), Ch(" "), Fld("episode", 0)>>

\* "{season}x{episode:02d}", "E{episode:02d}S{season:02d}", and a template
\* with a misspelt field, "S{seson:02d}E{episode:02d}"
CrossTemplate == <<Fld("season", 0), Ch("x"), Fld("episode", 2)>>
SwappedTemplate == <<Ch("E"), Fld("episode", 2), Ch("S"), Fld("season", 2)>>
BadTemplate == <<Ch("S"), Fld("seson", 2), Ch("E"), Fld("episode", 2)>>

Templates == {DefaultTemplate, LongTemplate, CrossTemplate, SwappedTemplate,
              BadTemplate}

-----------------------------------------------------------------------------
(* The retry decorator                                                     *)

\* the frame of retry.wrapper: attempts and current_delay are its locals;
\* calls counts the invocations of func, sleeps lists the time.sleep calls,
\* replies the answers func got from the network; exc is the invocation whose
\* exception left the wrapper.  A frame stays as it ended until the next call
NoFrame == [state |-> "idle", fn |-> "", old_name |-> <<>>, new_name |-> <<>>,
            attempts |-> 0, current_delay |-> 0, calls |-> 0, sleeps |-> <<>>,
            replies |-> <<>>, ret |-> "None", listing |-> <<>>, exc |-> 0]

NoCfg == [max_attempts |-> 0, delay |-> 0, backoff |-> 0]

\* retry(max_attempts, delay, backoff)
RetryCfg(max_attempts, delay, backoff) ==
    [max_attempts |-> max_attempts, delay |-> delay, backoff |-> backoff]

\* the decorator lines of the four backend methods: @retry(max_attempts=3,
\* delay=1.0) on AlistStorage, @retry(max_attempts=3, delay=1.5) on
\* BaiduStorage; backoff keeps its default 2.0
DecoratorOf(st) ==
    IF st = "alist" THEN RetryCfg(3, 10, 2) ELSE RetryCfg(3, 15, 2)

\* wrapper(*args): attempts = 0, current_delay = delay
EnterWrapper(c, fn, old_name, newname) ==
    [NoFrame EXCEPT !.state = "running", !.fn = fn, !.old_name = old_name,
                    !.new_name = newname, !.current_delay = c.delay]

\* OnException re-raising only once attempts exceeds max_attempts
MutOnException_Strict(c, w, reply) ==
    LET n == w.calls + 1
        a == w.attempts + 1
    IN  IF a > c.max_attempts
        THEN [w EXCEPT !.calls = n, !.replies = Append(@, reply),
                       !.attempts = a, !.state = "raised", !.exc = n]
        ELSE [w EXCEPT !.calls = n, !.replies = Append(@, reply),
                       !.attempts = a,
                       !.sleeps = Append(@, w.current_delay),
                       !.current_delay = w.current_delay * c.backoff]

\* OnException giving up one attempt early
MutOnException_GiveUpEarly(c, w, reply) ==
    LET n == w.calls + 1
        a == w.attempts + 1
    IN  IF a >= c.max_attempts - 1
        THEN [w EXCEPT !.calls = n, !.replies = Append(@, reply),
                       !.attempts = a, !.state = "raised", !.exc = n]
        ELSE [w EXCEPT !.calls = n, !.replies = Append(@, reply),
                       !.attempts = a,
                       !.sleeps = Append(@, w.current_delay),
                       !.current_delay = w.current_delay * c.backoff]

\* OnException without "current_delay *= backoff"
MutOnException_NoBackoff(c, w, reply) ==
    LET n == w.calls + 1
        a == w.attempts + 1
    IN  IF a >= c.max_attempts
        THEN [w EXCEPT !.calls = n, !.replies = Append(@, reply),
                       !.attempts = a, !.state = "raised", !.exc = n]
        ELSE [w EXCEPT !.calls = n, !.replies = Append(@, reply),
                       !.attempts = a,
                       !.sleeps = Append(@, w.current_delay)]

\* "except Exception" of the wrapper, after invocation number n of func raised
OnException(c, w, reply) ==
    LET n == w.calls + 1
        a == w.attempts + 1
    IN  IF a >= c.max_attempts
        THEN [w EXCEPT !.calls = n, !.replies = Append(@, reply),
                       !.attempts = a, !.state = "raised", !.exc = n]
        ELSE [w EXCEPT !.calls = n, !.replies = Append(@, reply),
                       !.attempts = a,
                       !.sleeps = Append(@, w.current_delay),
                       !.current_delay = w.current_delay * c.backoff]

\* "return func(*args, **kwargs)"
OnReturn(w, reply, out) ==
    [w EXCEPT !.calls = w.calls + 1, !.replies = Append(@, reply),
              !.state = "returned", !.ret = out.ret, !.listing = out.listing]

-----------------------------------------------------------------------------
(* The storage backends                                                    *)

\* what one HTTP request ends in: a transport failure (timeout, connection
\* error, HTTP error status, undecodable body), or a decoded JSON object
Transport == [transport |-> TRUE, code |-> 0, errno |-> 0, has_list |-> FALSE]
Json(code, errno, has_list) ==
    [transport |-> FALSE, code |-> code, errno |-> errno, has_list |-> has_list]

\* the answers of an Alist server: code 200, or an error code with a message
AlistReplies == {Transport, Json(200, 0, FALSE), Json(403, 0, FALSE)}

\* the answers of the netdisk to method=list: the list, or an error number
\* without it; to method=move: errno 0, or an error number
BaiduListReplies == {Transport, Json(0, 0, TRUE), Json(0, -7, FALSE)}
BaiduMoveReplies == {Transport, Json(0, 0, FALSE), Json(0, -7, FALSE)}

Raises == [raises |-> TRUE, ret |-> "None", listing |-> <<>>]
Returns(ret, listing) == [raises |-> FALSE, ret |-> ret, listing |-> listing]

AlistListFolders(reply, content) ==
    IF reply.transport THEN Raises
    ELSE IF reply.code = 200 THEN Returns("list", content)
    ELSE Returns("list", <<>>)

\* AlistStorage.rename_file raising on an error code instead of returning False
MutAlistRenameFile_Raise(reply) ==
    IF reply.transport THEN Raises
    ELSE IF reply.code = 200 THEN Returns("True", <<>>)
    ELSE Raises

AlistRenameFile(reply) ==
    IF reply.transport THEN Raises
    ELSE IF reply.code = 200 THEN Returns("True", <<>>)
    ELSE Returns("False", <<>>)

BaiduListFolders(reply, content) ==
    IF reply.transport THEN Raises
    ELSE IF reply.has_list THEN Returns("list", content)
    ELSE Returns("list", <<>>)

\* BaiduStorage.rename_file reading the Alist field "code" for its verdict
MutBaiduRenameFile_AlistCode(reply) ==
    IF reply.transport THEN Raises
    ELSE IF reply.code = 200 THEN Returns("True", <<>>)
    ELSE Returns("False", <<>>)

BaiduRenameFile(reply) ==
    IF reply.transport THEN Raises
    ELSE IF reply.errno = 0 THEN Returns("True", <<>>)
    ELSE Returns("False", <<>>)

\* the remote carried the request out
Accepted(st, reply) ==
    /\ ~reply.transport
    /\ IF st = "alist" THEN reply.code = 200 ELSE reply.errno = 0

\* the directory after the remote renamed the file old to new
Renamed(dir, old, new) ==
    [k \in 1..Len(dir) |->
        IF dir[k].name = old /\ ~dir[k].is_dir
        THEN [dir[k] EXCEPT !.name = new] ELSE dir[k]]

\* one invocation of the wrapped backend method: its outcome
Body(st, fn, reply, content) ==
    IF st = "alist"
    THEN IF fn = "list_folders" THEN AlistListFolders(reply, content)
         ELSE AlistRenameFile(reply)
    ELSE IF fn = "list_folders" THEN BaiduListFolders(reply, content)
         ELSE BaiduRenameFile(reply)

RepliesOf(st, fn) ==
    IF st = "alist" THEN AlistReplies
    ELSE IF fn = "list_folders" THEN BaiduListReplies ELSE BaiduMoveReplies

\* BaseStorage.list_files: [f for f in content if f.get("is_dir") == False]
RECURSIVE list_files(_)
list_files(content) ==
    IF content = <<>> THEN <<>>
    ELSE IF Head(content).is_dir THEN list_files(Tail(content))
    ELSE <<Head(content).name>> \o list_files(Tail(content))

-----------------------------------------------------------------------------
(* A run: main from process_directory on                                   *)

NoParse == [info |-> None, tried |-> <<>>]

IdleParse == fname = <<>> /\ parsed = NoParse /\ new_name = NoName

\* main has not read a configuration, built a storage or exited
NoConfig == [base_url |-> "", token |-> "", access_token |-> "",
             interactive |-> FALSE]

IdleMain ==
    /\ config = NoConfig /\ storage = "None" /\ exit_code = -1
    /\ interrupt = "" /\ response = ""

Init ==
    /\ storage_type \in {"alist", "baidu"}
    /\ template \in {DefaultTemplate, SwappedTemplate, BadTemplate}
    /\ dry_run \in BOOLEAN
    /\ remote \in DirListings
    /\ pc = "scan"
    /\ files = <<>> /\ episodes = <<>> /\ changes = <<>>
    /\ skipped = <<>> /\ unparseable = <<>>
    /\ results = <<>> /\ idx = 0 /\ rename_calls = <<>>
    /\ cfg = NoCfg /\ wr = NoFrame
    /\ IdleParse
    /\ IdleMain

\* process_directory: files = self.storage.list_files(path)
ListFiles ==
    /\ pc = "scan"
    /\ cfg' = DecoratorOf(storage_type)
    /\ wr' = EnterWrapper(DecoratorOf(storage_type), "list_folders", <<>>, <<>>)
    /\ pc' = "listing"
    /\ UNCHANGED <<remote, scanVars, applyVars, confVars, parseVars,
                   mainVars>>

\* one pass of the wrapper's loop in which the backend method raises
AttemptRaises ==
    /\ wr.state = "running"
    /\ wr.attempts < cfg.max_attempts
    /\ \E reply \in RepliesOf(storage_type, wr.fn) :
          /\ Body(storage_type, wr.fn, reply, remote).raises
          /\ wr' = OnException(cfg, wr, reply)
    /\ UNCHANGED <<cfg, remote, pc, scanVars, applyVars, confVars, parseVars,
                   mainVars>>

\* one pass of the wrapper's loop in which the backend method returns; the
\* remote has renamed the file when it answers a rename with success
AttemptReturns ==
    /\ wr.state = "running"
    /\ wr.attempts < cfg.max_attempts
    /\ \E reply \in RepliesOf(storage_type, wr.fn) :
          LET out == Body(storage_type, wr.fn, reply, remote)
          IN  /\ ~out.raises
              /\ wr' = OnReturn(wr, reply, out)
              /\ remote' = IF wr.fn = "rename_file" /\ Accepted(storage_type, reply)
                           THEN Renamed(remote, wr.old_name, wr.new_name)
                           ELSE remote
    /\ UNCHANGED <<cfg, pc, scanVars, applyVars, confVars, parseVars,
                   mainVars>>

\* process_directory with the listing in hand: "if not files: return [], []",
\* else the loop over the files
ScanFiles ==
    /\ pc = "listing" /\ wr.state = "returned"
    /\ LET fs == list_files(wr.listing)
           sc == Scan(fs, template)
       IN  /\ files' = fs
           /\ episodes' = sc.episodes
           /\ changes' = sc.changes
           /\ skipped' = sc.skipped
           /\ unparseable' = sc.unparseable
    /\ pc' = "planned"
    /\ UNCHANGED <<remote, applyVars, retryVars, confVars, parseVars,
                   mainVars>>

\* process_directory: "except Exception: return [], []"
ListFailed ==
    /\ pc = "listing" /\ wr.state = "raised"
    /\ pc' = "planned"
    /\ UNCHANGED <<remote, scanVars, applyVars, retryVars, confVars, parseVars,
                   mainVars>>

\* main: "if not changes: sys.exit(0)"
NothingToDo ==
    /\ pc = "planned" /\ changes = <<>>
    /\ pc' = "done"
    /\ UNCHANGED <<remote, scanVars, applyVars, retryVars, confVars, parseVars,
                   mainVars>>

\* Confirm going on to apply_changes whatever the answer
MutConfirm_AlwaysApply ==
    /\ pc = "planned" /\ changes # <<>> /\ dry_run
    /\ \E answer \in {"y", "n", "EOF", "KeyboardInterrupt"} :
          /\ response' = answer
          /\ pc' = "apply"
          /\ interrupt' = IF answer = "KeyboardInterrupt" THEN "confirm"
                          ELSE interrupt
    /\ UNCHANGED <<remote, scanVars, applyVars, retryVars, confVars, parseVars,
                   config, storage, exit_code>>

\* main with dry_run set: the prompt; "y" goes on to apply_changes, any other
\* answer does not, and EOFError and KeyboardInterrupt at the prompt are caught
\* and end in sys.exit(0)
Confirm ==
    /\ pc = "planned" /\ changes # <<>> /\ dry_run
    /\ \E answer \in {"y", "n", "EOF", "KeyboardInterrupt"} :
          /\ response' = answer
          /\ pc' = IF answer = "y" THEN "apply" ELSE "done"
          /\ interrupt' = IF answer = "KeyboardInterrupt" THEN "confirm"
                          ELSE interrupt
    /\ UNCHANGED <<remote, scanVars, applyVars, retryVars, confVars, parseVars,
                   config, storage, exit_code>>

\* main with dry_run unset: apply_changes at once
NoDryRun ==
    /\ pc = "planned" /\ changes # <<>> /\ ~dry_run
    /\ pc' = "apply"
    /\ UNCHANGED <<remote, scanVars, applyVars, retryVars, confVars, parseVars,
                   mainVars>>

\* apply_changes: success = self.storage.rename_file(old_path, new_name)
CallRename ==
    /\ pc = "apply" /\ idx < Len(changes)
    /\ LET ch == changes[idx + 1]
       IN  /\ cfg' = DecoratorOf(storage_type)
           /\ wr' = EnterWrapper(DecoratorOf(storage_type), "rename_file",
                                 ch[1], ch[2])
           /\ rename_calls' = Append(rename_calls, ch[1])
    /\ pc' = "renaming"
    /\ UNCHANGED <<remote, scanVars, results, idx, confVars, parseVars,
                   mainVars>>

RenameResult(success, old_name, newname, error) ==
    [success |-> success, old_name |-> old_name, new_name |-> newname,
     error |-> error]

\* the result apply_changes appends for the change ch when rename_file ended
\* in the wrapper frame w
ResultOf(w, ch) ==
    IF w.state = "raised" THEN RenameResult(FALSE, ch[1], ch[2], "exception")
    ELSE IF w.ret = "True" THEN RenameResult(TRUE, ch[1], ch[2], "None")
    ELSE RenameResult(FALSE, ch[1], ch[2], "API")

\* RecordResult appending nothing when rename_file raised
MutRecordResult_DropOnException ==
    /\ pc = "renaming" /\ wr.state \in {"returned", "raised"}
    /\ results' = IF wr.state = "raised" THEN results
                  ELSE Append(results, ResultOf(wr, changes[idx + 1]))
    /\ idx' = idx + 1
    /\ pc' = "apply"
    /\ UNCHANGED <<remote, scanVars, rename_calls, retryVars, confVars, parseVars,
                   mainVars>>

\* RecordResult leaving the loop at the first failed rename
MutRecordResult_StopOnFailure ==
    /\ pc = "renaming" /\ wr.state \in {"returned", "raised"}
    /\ results' = Append(results, ResultOf(wr, changes[idx + 1]))
    /\ idx' = idx + 1
    /\ pc' = IF ResultOf(wr, changes[idx + 1]).success THEN "apply" ELSE "applied"
    /\ UNCHANGED <<remote, scanVars, rename_calls, retryVars, confVars, parseVars,
                   mainVars>>

\* apply_changes: the rest of the loop body after rename_file came back
RecordResult ==
    /\ pc = "renaming" /\ wr.state \in {"returned", "raised"}
    /\ results' = Append(results, ResultOf(wr, changes[idx + 1]))
    /\ idx' = idx + 1
    /\ pc' = "apply"
    /\ UNCHANGED <<remote, scanVars, rename_calls, retryVars, confVars, parseVars,
                   mainVars>>

\* apply_changes: the loop is over, return results
ApplyDone ==
    /\ pc = "apply" /\ idx = Len(changes)
    /\ pc' = "applied"
    /\ UNCHANGED <<remote, scanVars, applyVars, retryVars, confVars, parseVars,
                   mainVars>>

\* main: the failed results are printed, the run ends
ReportFailures ==
    /\ pc = "applied"
    /\ pc' = "done"
    /\ UNCHANGED <<remote, scanVars, applyVars, retryVars, confVars, parseVars,
                   mainVars>>

Next ==
    \/ ListFiles \/ AttemptRaises \/ AttemptReturns \/ ScanFiles \/ ListFailed
    \/ NothingToDo \/ Confirm \/ NoDryRun \/ CallRename \/ RecordResult
    \/ ApplyDone \/ ReportFailures

Spec == Init /\ [][Next]_vars

-----------------------------------------------------------------------------
(* parse_episode and generate_new_name on one file name                    *)

IdleRun ==
    /\ storage_type = "" /\ dry_run = TRUE /\ remote = <<>>
    /\ files = <<>> /\ episodes = <<>> /\ changes = <<>>
    /\ skipped = <<>> /\ unparseable = <<>>
    /\ results = <<>> /\ idx = 0 /\ rename_calls = <<>>

InitParse ==
    /\ fname \in GenNames
    /\ template \in Templates
    /\ parsed = NoParse
    /\ new_name = NoName
    /\ pc = "parse"
    /\ IdleRun
    /\ cfg = NoCfg /\ wr = NoFrame
    /\ IdleMain

ParseEpisode ==
    /\ pc = "parse"
    /\ parsed' = parse_episode_run(fname)
    /\ pc' = "parsed"
    /\ UNCHANGED <<fname, new_name, remote, scanVars, applyVars, retryVars,
                   confVars,
                   mainVars>>

GenerateNewName ==
    /\ pc = "parsed"
    /\ parsed.info # None
    /\ new_name' = generate_new_name(parsed.info, template)
    /\ pc' = "named"
    /\ UNCHANGED <<fname, parsed, remote, scanVars, applyVars, retryVars,
                   confVars,
                   mainVars>>

NextParse == ParseEpisode \/ GenerateNewName

SpecParse == InitParse /\ [][NextParse]_vars

-----------------------------------------------------------------------------
(* The retry decorator with any arguments, around rename_file              *)

\* max_attempts ranges over 0..MaxAttempts
MaxAttempts == 4

RetryCfgs ==
    {RetryCfg(n, d, b) : n \in 0..MaxAttempts, d \in {10, 15}, b \in {1, 2, 3}}

RetryFile == <<"E", "P", "1", "2", ".", "m", "k", "v">>
RetryName == <<"S", "0", "1", "E", "1", "2", ".", "m", "k", "v">>

InitRetry ==
    /\ storage_type \in {"alist", "baidu"}
    /\ cfg \in RetryCfgs
    /\ wr = EnterWrapper(cfg, "rename_file", RetryFile, RetryName)
    /\ remote = <<Entry(RetryFile, FALSE)>>
    /\ pc = "retry"
    /\ template = DefaultTemplate /\ dry_run = FALSE
    /\ files = <<>> /\ episodes = <<>> /\ changes = <<>>
    /\ skipped = <<>> /\ unparseable = <<>>
    /\ results = <<>> /\ idx = 0 /\ rename_calls = <<>>
    /\ IdleParse
    /\ IdleMain

\* "while attempts < max_attempts" is false: the wrapper falls off its end
\* and returns None
LoopExhausted ==
    /\ wr.state = "running"
    /\ ~(wr.attempts < cfg.max_attempts)
    /\ wr' = [wr EXCEPT !.state = "returned", !.ret = "None"]
    /\ UNCHANGED <<cfg, remote, pc, scanVars, applyVars, confVars, parseVars,
                   mainVars>>

NextRetry == AttemptRaises \/ AttemptReturns \/ LoopExhausted

SpecRetry == InitRetry /\ [][NextRetry]_vars

-----------------------------------------------------------------------------
(* process_directory, every change applied, process_directory again        *)

InitPlan ==
    /\ remote \in DirListings \cup {<<Entry(n, FALSE)>> : n \in GenNames}
    /\ template \in Templates
    /\ storage_type = "alist" /\ dry_run = FALSE
    /\ pc = "plan"
    /\ files = <<>> /\ episodes = <<>> /\ changes = <<>>
    /\ skipped = <<>> /\ unparseable = <<>>
    /\ results = <<>> /\ idx = 0 /\ rename_calls = <<>>
    /\ cfg = NoCfg /\ wr = NoFrame
    /\ IdleParse
    /\ IdleMain

\* process_directory on the listing of the directory as it stands
PlanDirectory ==
    /\ pc \in {"plan", "replan"}
    /\ LET fs == list_files(remote)
           sc == Scan(fs, template)
       IN  /\ files' = fs
           /\ episodes' = sc.episodes
           /\ changes' = sc.changes
           /\ skipped' = sc.skipped
           /\ unparseable' = sc.unparseable
    /\ pc' = IF pc = "plan" THEN "planned" ELSE "replanned"
    /\ UNCHANGED <<remote, applyVars, retryVars, confVars, parseVars,
                   mainVars>>

\* the directory after the changes cs were carried out one after the other
RECURSIVE RenamedAll(_, _)
RenamedAll(dir, cs) ==
    IF cs = <<>> THEN dir
    ELSE RenamedAll(Renamed(dir, Head(cs)[1], Head(cs)[2]), Tail(cs))

\* apply_changes when every rename_file returns True
ApplyAll ==
    /\ pc = "planned"
    /\ remote' = RenamedAll(remote, changes)
    /\ results' = [k \in 1..Len(changes) |->
                     RenameResult(TRUE, changes[k][1], changes[k][2], "None")]
    /\ idx' = Len(changes)
    /\ rename_calls' = [k \in 1..Len(changes) |-> changes[k][1]]
    /\ pc' = "replan"
    /\ UNCHANGED <<scanVars, retryVars, confVars, parseVars, mainVars>>

NextPlan == PlanDirectory \/ ApplyAll

SpecPlan == InitPlan /\ [][NextPlan]_vars

-----------------------------------------------------------------------------
(* create_storage on any configuration, then test_connection               *)

\* AlistStorage.__init__ without the test of token
MutAlistStorage_NoTokenCheck(base_url, token) ==
    IF base_url = "" THEN "ValueError" ELSE "AlistStorage"

\* AlistStorage.__init__: the object, or the ValueError it raises
AlistStorage(base_url, token) ==
    IF base_url = "" THEN "ValueError"
    ELSE IF token = "" THEN "ValueError"
    ELSE "AlistStorage"

\* BaiduStorage.__init__
BaiduStorage(access_token) ==
    IF access_token = "" THEN "ValueError" ELSE "BaiduStorage"

\* create_storage re-raises the ValueError of a constructor and raises one
\* itself for a storage type it does not know
create_storage(st, c) ==
    IF st = "alist" THEN AlistStorage(c.base_url, c.token)
    ELSE IF st = "baidu" THEN BaiduStorage(c.access_token)
    ELSE "ValueError"

Configs ==
    [base_url : {"", "http://localhost:5244"}, token : {"", "tok"},
     access_token : {"", "tok"}, interactive : BOOLEAN]

InitCreate ==
    /\ storage_type \in {"alist", "baidu", "ftp"}
    /\ config \in Configs
    /\ storage = "None" /\ exit_code = -1 /\ interrupt = "" /\ response = ""
    /\ remote \in {<<>>, <<Entry(RetryFile, FALSE)>>}
    /\ pc = "create"
    /\ template = DefaultTemplate /\ dry_run = TRUE
    /\ files = <<>> /\ episodes = <<>> /\ changes = <<>>
    /\ skipped = <<>> /\ unparseable = <<>>
    /\ results = <<>> /\ idx = 0 /\ rename_calls = <<>>
    /\ cfg = NoCfg /\ wr = NoFrame
    /\ IdleParse

\* main: storage = create_storage(config); "except Exception: sys.exit(1)"
CreateStorage ==
    /\ pc = "create"
    /\ storage' = create_storage(storage_type, config)
    /\ IF storage' = "ValueError"
       THEN pc' = "exited" /\ exit_code' = 1
       ELSE pc' = "created" /\ exit_code' = exit_code
    /\ UNCHANGED <<remote, scanVars, applyVars, retryVars, confVars, parseVars,
                   config, interrupt, response>>

\* test_connection: self.list_folders(self.root_path)
TestConnection ==
    /\ pc = "created"
    /\ cfg' = DecoratorOf(storage_type)
    /\ wr' = EnterWrapper(DecoratorOf(storage_type), "list_folders", <<>>, <<>>)
    /\ pc' = "testing"
    /\ UNCHANGED <<remote, scanVars, applyVars, confVars, parseVars, mainVars>>

\* test_connection returns True when list_folders returned and False when it
\* raised; main: "if not storage.test_connection(): sys.exit(1)"
ConnectionTested ==
    /\ pc = "testing" /\ wr.state \in {"returned", "raised"}
    /\ IF wr.state = "raised"
       THEN pc' = "exited" /\ exit_code' = 1
       ELSE pc' = "connected" /\ exit_code' = exit_code
    /\ UNCHANGED <<remote, scanVars, applyVars, retryVars, confVars, parseVars,
                   config, storage, interrupt, response>>

NextCreate ==
    \/ CreateStorage \/ TestConnection \/ AttemptRaises \/ AttemptReturns
    \/ ConnectionTested

SpecCreate == InitCreate /\ [][NextCreate]_vars

-----------------------------------------------------------------------------
(* A whole run of main, with KeyboardInterrupt                             *)

\* main: need_setup
need_setup(st, c) == IF st = "alist" THEN c.token = "" ELSE c.access_token = ""

\* the dictionary interactive_setup returns, merged by config.update: an empty
\* answer for the address is replaced by the default address
SetupConfig(c, choice, url, tok) ==
    IF choice = "1"
    THEN [c EXCEPT !.base_url = IF url = "" THEN "http://localhost:5244" ELSE url,
                   !.token = tok]
    ELSE [c EXCEPT !.access_token = tok]

MainListings ==
    { <<Entry(RetryFile, FALSE), Entry(<<"DI", "3", "JI", ".", "m", "p", "4">>, FALSE)>>,
      <<Entry(RetryName, FALSE)>> }

InitMain ==
    /\ storage_type \in {"alist", "baidu", "ftp"}
    /\ config \in Configs
    /\ template = DefaultTemplate
    /\ dry_run \in BOOLEAN
    /\ remote \in MainListings
    /\ storage = "None" /\ exit_code = -1 /\ interrupt = "" /\ response = ""
    /\ pc = "main"
    /\ files = <<>> /\ episodes = <<>> /\ changes = <<>>
    /\ skipped = <<>> /\ unparseable = <<>>
    /\ results = <<>> /\ idx = 0 /\ rename_calls = <<>>
    /\ cfg = NoCfg /\ wr = NoFrame
    /\ IdleParse

\* main: need_setup is False
NoSetup ==
    /\ pc = "main" /\ ~need_setup(storage_type, config)
    /\ pc' = "create"
    /\ UNCHANGED <<remote, scanVars, applyVars, retryVars, confVars, parseVars,
                   mainVars>>

\* main: need_setup is True and interactive_setup runs.  An empty token makes
\* it return None and main exits with 1; end-of-input at one of its prompts
\* raises EOFError and a KeyboardInterrupt is not caught there: both leave main
InteractiveSetup ==
    /\ pc = "main" /\ need_setup(storage_type, config)
    /\ \E outcome \in {"answered", "EOF", "KeyboardInterrupt"},
          choice \in {"1", "2"}, url \in {"", "http://host"}, tok \in {"", "tok"},
          tpl \in {DefaultTemplate, LongTemplate} :
          IF outcome = "EOF"
          THEN /\ pc' = "exited" /\ exit_code' = 1
               /\ UNCHANGED <<config, storage_type, template, interrupt>>
          ELSE IF outcome = "KeyboardInterrupt"
          THEN /\ pc' = "exited" /\ exit_code' = 130 /\ interrupt' = "setup"
               /\ UNCHANGED <<config, storage_type, template>>
          ELSE IF tok = ""
          THEN /\ pc' = "exited" /\ exit_code' = 1
               /\ UNCHANGED <<config, storage_type, template, interrupt>>
          ELSE /\ config' = SetupConfig(config, choice, url, tok)
               /\ storage_type' = IF choice = "1" THEN "alist" ELSE "baidu"
               /\ template' = tpl
               /\ pc' = "create"
               /\ UNCHANGED <<exit_code, interrupt>>
    /\ UNCHANGED <<remote, scanVars, applyVars, retryVars, dry_run, parseVars,
                   storage, response>>

\* main: config["interactive"] is False, the path comes from the configuration
NotInteractive ==
    /\ pc = "connected" /\ ~config.interactive
    /\ pc' = "scan"
    /\ UNCHANGED <<remote, scanVars, applyVars, retryVars, confVars, parseVars,
                   mainVars>>

\* select_folder_interactive, one pass of its loop: display_folder lists the
\* current folder
BrowseFolder ==
    /\ pc = "connected" /\ config.interactive
    /\ cfg' = DecoratorOf(storage_type)
    /\ wr' = EnterWrapper(DecoratorOf(storage_type), "list_folders", <<>>, <<>>)
    /\ pc' = "browsing"
    /\ UNCHANGED <<remote, scanVars, applyVars, confVars, parseVars, mainVars>>

\* select_folder_interactive at its prompt, the listing shown or its failure
\* reported: "c" and "y" select the folder, any other choice starts the next
\* pass, EOFError and KeyboardInterrupt at the first prompt make it return
\* None and main exit with 0; the second prompt has no try block
BrowsePrompt ==
    /\ pc = "browsing" /\ wr.state \in {"returned", "raised"}
    /\ \E choice \in {"c", "q", "EOF", "KeyboardInterrupt"},
          confirm \in {"y", "n", "EOF", "KeyboardInterrupt"} :
          IF choice = "c" /\ confirm = "y"
          THEN pc' = "scan" /\ UNCHANGED <<exit_code, interrupt>>
          ELSE IF choice = "c" /\ confirm = "EOF"
          THEN pc' = "exited" /\ exit_code' = 1 /\ UNCHANGED interrupt
          ELSE IF choice = "c" /\ confirm = "KeyboardInterrupt"
          THEN pc' = "exited" /\ exit_code' = 130 /\ interrupt' = "select"
          ELSE IF choice = "EOF"
          THEN pc' = "exited" /\ exit_code' = 0 /\ UNCHANGED interrupt
          ELSE IF choice = "KeyboardInterrupt"
          THEN pc' = "exited" /\ exit_code' = 0 /\ interrupt' = "browse"
          ELSE pc' = "connected" /\ UNCHANGED <<exit_code, interrupt>>
    /\ UNCHANGED <<remote, scanVars, applyVars, retryVars, confVars, parseVars,
                   config, storage, response>>

\* main returned or called sys.exit(0): the process ends with status 0
MainReturns ==
    /\ pc = "done"
    /\ pc' = "exited" /\ exit_code' = 0
    /\ UNCHANGED <<remote, scanVars, applyVars, retryVars, confVars, parseVars,
                   config, storage, interrupt, response>>

\* Interrupt undoing the renames that succeeded
MutInterrupt_Rollback ==
    /\ pc \notin {"done", "exited"}
    /\ pc' = "exited" /\ exit_code' = 130 /\ interrupt' = pc
    /\ remote' = [k \in 1..Len(remote) |->
                    IF \E j \in 1..Len(results) :
                          results[j].success /\ results[j].new_name = remote[k].name
                    THEN [remote[k] EXCEPT !.name =
                            (CHOOSE r \in {results[j] : j \in 1..Len(results)} :
                                r.success /\ r.new_name = remote[k].name).old_name]
                    ELSE remote[k]]
    /\ UNCHANGED <<scanVars, applyVars, retryVars, confVars, parseVars,
                   config, storage, response>>

\* a KeyboardInterrupt outside the two guarded prompts, at any step of main:
\* no except clause on the way catches it ("except Exception" does not), the
\* handler of __main__ exits with 130
Interrupt ==
    /\ pc \notin {"done", "exited"}
    /\ pc' = "exited" /\ exit_code' = 130 /\ interrupt' = pc
    /\ UNCHANGED <<remote, scanVars, applyVars, retryVars, confVars, parseVars,
                   config, storage, response>>

NextMain ==
    \/ NoSetup \/ InteractiveSetup \/ CreateStorage \/ TestConnection
    \/ ConnectionTested \/ NotInteractive \/ BrowseFolder \/ BrowsePrompt
    \/ Next \/ MainReturns \/ Interrupt

SpecMain == InitMain /\ [][NextMain]_vars

-----------------------------------------------------------------------------
(* Properties                                                              *)

AllTransport(rs) == \A k \in 1..Len(rs) : rs[k].transport

\* the reply is a well-formed answer that reports a failure: Alist code other
\* than 200, netdisk errno other than 0 (move) or no "list" key (list)
LogicalFailure(st, fn, reply) ==
    /\ ~reply.transport
    /\ IF st = "alist" THEN reply.code # 200
       ELSE IF fn = "rename_file" THEN reply.errno # 0
       ELSE ~reply.has_list

RECURSIVE Pow(_, _)
Pow(b, k) == IF k <= 0 THEN 1 ELSE b * Pow(b, k - 1)

\* C1: apply_changes' results are as many as the changes it has processed,
\* the k-th result carries the old and new name of the k-th change, and when
\* apply_changes returns there is one result per change, whatever each
\* rename_file call ended in.
C1_ResultsMatchChanges ==
    /\ Len(results) = idx
    /\ idx <= Len(changes)
    /\ \A k \in 1..Len(results) :
          /\ results[k].old_name = changes[k][1]
          /\ results[k].new_name = changes[k][2]
    /\ pc = "applied" => Len(results) = Len(changes)

\* apply_changes has returned after a rename that raised and one that worked
C1_Witness ==
    /\ pc = "applied" /\ Len(changes) = 2
    /\ results[1].error = "exception"
    /\ results[2].success

\* C2: a rename that returns False or raises is recorded with success=False,
\* and rename_file is called for the changes in input order, for every one of
\* them by the time apply_changes returns.
C2_FailureDoesNotStop ==
    /\ rename_calls = [k \in 1..Len(rename_calls) |-> changes[k][1]]
    /\ Len(rename_calls) = idx + (IF pc = "renaming" THEN 1 ELSE 0)
    /\ pc = "applied" => Len(rename_calls) = Len(changes)
    /\ (pc = "apply" /\ idx >= 1 /\ (wr.state = "raised" \/ wr.ret = "False"))
          => (~results[idx].success /\ results[idx].error # "None")

\* the first of two renames failed with an API failure, the second was still
\* called
C2_Witness ==
    /\ pc = "applied" /\ Len(changes) = 2
    /\ ~results[1].success /\ results[1].error = "API"
    /\ Len(rename_calls) = 2

\* C3: with max_attempts = n >= 1 and every invocation raising, the wrapped
\* function is invoked exactly n times, the wrapper never returns, and the
\* exception that leaves it is the one of invocation n.
C3_AlwaysRaisingInvokedNTimes ==
    (cfg.max_attempts >= 1 /\ AllTransport(wr.replies)) =>
        /\ wr.calls = Len(wr.replies)
        /\ wr.calls <= cfg.max_attempts
        /\ wr.state \in {"running", "raised"}
        /\ (wr.state = "raised") <=> (wr.calls = cfg.max_attempts)
        /\ wr.state = "raised" => wr.exc = cfg.max_attempts

\* three attempts, all raised, the third exception propagates
C3_Witness ==
    /\ cfg.max_attempts = 3 /\ wr.state = "raised"
    /\ wr.calls = 3 /\ wr.exc = 3 /\ AllTransport(wr.replies)

\* C4: after j < max_attempts raising invocations the wrapper is still
\* running; when invocation j+1 returns, the wrapper returns that value
\* after exactly j+1 invocations; it gives up only after max_attempts; and a
\* rename the remote accepts at last is recorded with success=True.
C4_TransientThenSuccess ==
    /\ wr.state = "running" =>
          /\ AllTransport(wr.replies)
          /\ wr.calls = wr.attempts /\ wr.attempts < cfg.max_attempts
    /\ wr.state = "returned" =>
          LET j == wr.attempts
              last == wr.replies[j + 1]
          IN  /\ j < cfg.max_attempts
              /\ wr.calls = j + 1 /\ Len(wr.replies) = j + 1
              /\ AllTransport(SubSeq(wr.replies, 1, j))
              /\ ~last.transport
              /\ wr.ret = Body(storage_type, wr.fn, last, wr.listing).ret
    /\ wr.state = "raised" => wr.calls = cfg.max_attempts
    /\ (pc = "apply" /\ idx >= 1 /\ wr.state = "returned"
            /\ Accepted(storage_type, wr.replies[wr.calls]))
          => (results[idx].success /\ results[idx].error = "None")

\* a rename raised twice, was accepted the third time, and is recorded as a
\* success
C4_Witness ==
    /\ pc = "apply" /\ idx >= 1
    /\ wr.attempts = 2 /\ wr.calls = 3 /\ wr.state = "returned"
    /\ Accepted(storage_type, wr.replies[3])
    /\ results[idx].success

\* C5: a well-formed failure answer is the last request of its call: the
\* backend method returns at once, False from rename_file and the empty list
\* from list_folders, and the wrapper does not raise or retry.
C5_LogicalFailureNotRetried ==
    \A k \in 1..Len(wr.replies) :
        LogicalFailure(storage_type, wr.fn, wr.replies[k]) =>
            /\ k = Len(wr.replies) /\ wr.calls = k
            /\ wr.state = "returned"
            /\ wr.fn = "rename_file" => wr.ret = "False"
            /\ wr.fn = "list_folders" => (wr.ret = "list" /\ wr.listing = <<>>)

\* the only request of a rename was answered with a failure code
C5_Witness ==
    /\ pc = "apply" /\ idx >= 1
    /\ wr.fn = "rename_file" /\ wr.calls = 1
    /\ LogicalFailure(storage_type, wr.fn, wr.replies[1])
    /\ results[idx].error = "API"

\* C6 as claimed: the wait after failed attempt k is delay * backoff^k.
C6_WaitAsClaimed ==
    \A k \in 1..Len(wr.sleeps) :
        wr.sleeps[k] = cfg.delay * Pow(cfg.backoff, k)

\* C6: the wait after failed attempt k is delay * backoff^(k-1), and there is
\* one wait per failed attempt but the last of max_attempts.
C6_WaitAsCoded ==
    /\ \A k \in 1..Len(wr.sleeps) :
          wr.sleeps[k] = cfg.delay * Pow(cfg.backoff, k - 1)
    /\ Len(wr.sleeps) = IF wr.state = "raised" THEN wr.attempts - 1
                        ELSE wr.attempts
    /\ wr.state = "raised" => wr.attempts = cfg.max_attempts

\* three attempts raised with backoff 2: two waits, none after the third
C6_Witness ==
    /\ cfg.max_attempts = 3 /\ cfg.backoff = 2 /\ cfg.delay = 15
    /\ wr.state = "raised" /\ wr.sleeps = <<15, 30>>

\* the first rule of PATTERNS that matches the stem, 0 when none does
FirstMatch(stem) ==
    LET M == {r \in 1..Len(PATTERNS) : Search(r, stem) # NoMatch}
    IN  IF M = {} THEN 0 ELSE CHOOSE r \in M : \A q \in M : r <= q

\* what rule r alone makes of its groups: season 1 for a one-group rule
RuleSeason(r, groups) == IF PATTERNS[r] = 2 THEN ToInt(groups[1]) ELSE 1
RuleEpisode(r, groups) ==
    IF PATTERNS[r] = 2 THEN ToInt(groups[2]) ELSE ToInt(groups[1])

\* C7: the first rule that matches the stem is the last rule tried, and a
\* returned EpisodeInfo carries that rule's season and episode.
C7_FirstMatchDecides ==
    pc \in {"parsed", "named"} =>
        LET stem == Stem(fname)
            i    == FirstMatch(stem)
        IN  i # 0 =>
              /\ parsed.tried = [k \in 1..i |-> k]
              /\ parsed.info # None =>
                    /\ parsed.info.season = RuleSeason(i, Search(i, stem))
                    /\ parsed.info.episode = RuleEpisode(i, Search(i, stem))

\* C8: parse_episode returns None when no rule matches or the first matching
\* rule captures episode 0, and a returned EpisodeInfo has episode >= 1.
C8_NoneOnZeroEpisode ==
    pc \in {"parsed", "named"} =>
        LET stem == Stem(fname)
            i    == FirstMatch(stem)
        IN  /\ (i = 0 \/ RuleEpisode(i, Search(i, stem)) = 0)
                  => parsed.info = None
            /\ parsed.info # None => parsed.info.episode >= 1

\* C9 as claimed: for every template, planning again after every change was
\* applied yields no change.
C9_ReplanEmpty == pc = "replanned" => changes = <<>>

\* C9: with the template "S{season:02d}E{episode:02d}" or
\* "Season {season} Episode {episode}", planning again after every change was
\* applied yields no change.
C9_ReplanEmptyForTagTemplates ==
    (pc = "replanned" /\ template \in {DefaultTemplate, LongTemplate})
        => changes = <<>>

\* changes of the default template were applied and the second plan is empty
C9_Witness ==
    /\ pc = "replanned" /\ template = DefaultTemplate
    /\ Len(results) >= 1 /\ changes = <<>>

\* the video extensions as the claim lists them
ClaimVideoExts ==
    { <<".", "m", "p", "4">>, <<".", "m", "k", "v">>, <<".", "a", "v", "i">>,
      <<".", "m", "o", "v">>, <<".", "w", "m", "v">>, <<".", "f", "l", "v">>,
      <<".", "w", "e", "b", "m">>, <<".", "m", "4", "v">>, <<".", "t", "s">>,
      <<".", "r", "m", "v", "b">> }

\* C10: the old name of every change has a lower-cased extension in the video
\* set.
C10_OnlyVideoFilesChange ==
    \A k \in 1..Len(changes) :
        LowerStr(Suffix(changes[k][1])) \in ClaimVideoExts

\* a listing with a tagged non-video file was planned: the file is skipped
\* while another file of the listing is renamed
C10_Witness ==
    /\ pc = "planned" /\ Len(changes) >= 1
    /\ \E k \in 1..Len(files) :
          /\ parse_episode(files[k]) # None
          /\ LowerStr(Suffix(files[k])) \notin ClaimVideoExts
          /\ \E j \in 1..Len(skipped) : skipped[j] = files[k]

\* the file names of the listing whose rendered name is the name they have
AlreadyNamed(fs, tpl) ==
    {k \in 1..Len(fs) :
        /\ LowerStr(Suffix(fs[k])) \in VIDEO_EXTS
        /\ parse_episode(fs[k]) # None
        /\ generate_new_name(parse_episode(fs[k]), tpl) = fs[k]}

\* C11: every change of process_directory has a new name different from its
\* old name, and a file whose rendered name equals its current name produces
\* no change and is counted with the skipped (already correct) files.
C11_ChangesRename ==
    /\ \A k \in 1..Len(changes) : changes[k][1] # changes[k][2]
    /\ pc \in {"planned", "replanned"} =>
          \A k \in AlreadyNamed(files, template) :
              /\ \A j \in 1..Len(changes) : changes[j][1] # files[k]
              /\ \E j \in 1..Len(skipped) : skipped[j] = files[k]

\* a listing holding a file already named by the template and a file that is
\* not was planned: one change, the other file skipped
C11_Witness ==
    /\ pc = "planned" /\ template = DefaultTemplate
    /\ Len(changes) >= 1
    /\ \E k \in AlreadyNamed(files, template) :
          files[k] = <<"S", "0", "1", "E", "0", "2", ".", "m", "k", "v">>

\* n in decimal, filled with zeros on the left up to w characters
RECURSIVE ClaimPadded(_, _)
ClaimPadded(ds, w) == IF Len(ds) >= w THEN ds ELSE ClaimPadded(<<"0">> \o ds, w)

RECURSIVE ClaimDigits(_)
ClaimDigits(n) ==
    LET d == <<"0", "1", "2", "3", "4", "5", "6", "7", "8", "9">>[(n % 10) + 1]
    IN  IF n < 10 THEN <<d>> ELSE ClaimDigits(n \div 10) \o <<d>>

ClaimPad(n, w) == ClaimPadded(ClaimDigits(n), w)

\* what each well-formed template reads as for a season and an episode
ClaimRendered(tpl, s, e) ==
    CASE tpl = DefaultTemplate -> <<"S">> \o ClaimPad(s, 2) \o <<"E">> \o ClaimPad(e, 2)
      [] tpl = LongTemplate ->
            <<"S", "e", "a", "s", "o", "n", " ">> \o ClaimPad(s, 0)
            \o <<" ", "E", "p", "i", "s", "o", "d", "e", " ">> \o ClaimPad(e, 0)
      [] tpl = CrossTemplate -> ClaimPad(s, 0) \o <<"x">> \o ClaimPad(e, 2)
      [] tpl = SwappedTemplate -> <<"E">> \o ClaimPad(e, 2) \o <<"S">> \o ClaimPad(s, 2)

\* C12: for every parsed (season, episode) and every well-formed template,
\* generate_new_name returns the template rendered with season and episode
\* zero-padded to the width the template requests, followed by the extension
\* of the file in lower case.  process_directory reaches generate_new_name
\* only with a video extension; for any other extension generate_new_name
\* itself returns no name.
C12_RenderedForVideo ==
    (pc = "named" /\ template # BadTemplate) =>
        IF LowerStr(Suffix(fname)) \in ClaimVideoExts
        THEN new_name = ClaimRendered(template, parsed.info.season,
                                      parsed.info.episode)
                        \o LowerStr(Suffix(fname))
        ELSE new_name = NoName

\* a name ending in .MKV with a one-digit season and episode was rendered by
\* the default template: both numbers are padded, the extension is .mkv
C12_Witness ==
    /\ pc = "named" /\ template = DefaultTemplate
    /\ Suffix(fname) = <<".", "M", "K", "V">>
    /\ parsed.info.season = 2 /\ parsed.info.episode = 5
    /\ new_name = <<"S", "0", "2", "E", "0", "5", ".", "m", "k", "v">>

\* the positions of the listing that hold a video file parse_episode reads
ParsedVideos(fs) ==
    {k \in 1..Len(fs) :
        /\ LowerStr(Suffix(fs[k])) \in VIDEO_EXTS
        /\ parse_episode(fs[k]) # None}

\* C13: when rendering the template fails, process_directory emits no change
\* for the file and goes on with the remaining entries: it returns, and every
\* later file is still parsed and classified.
C13_BadTemplateSkipsFile ==
    (pc \in {"planned", "replanned"} /\ template = BadTemplate) =>
        /\ changes = <<>>
        /\ Len(episodes) = Cardinality(ParsedVideos(files))
        /\ \A k \in ParsedVideos(files) :
              \E j \in 1..Len(episodes) : episodes[j].original_name = files[k]
        /\ Len(episodes) + Len(skipped) + Len(unparseable) = Len(files)

\* two tagged video files were scanned with the misspelt template: both were
\* parsed, neither produced a change
C13_Witness ==
    /\ pc = "planned" /\ template = BadTemplate
    /\ Len(files) = 2 /\ Len(episodes) = 2
    /\ episodes[1].original_name = files[1]
    /\ episodes[2].original_name = files[2]
    /\ changes = <<>>

\* the configuration lacks a credential its storage type requires
MissingCredentials ==
    \/ storage_type = "alist" /\ (config.base_url = "" \/ config.token = "")
    \/ storage_type = "baidu" /\ config.access_token = ""

\* C14: constructing a backend without its required credentials (Alist: empty
\* base_url or token; Baidu: empty access_token) fails with a configuration
\* error at construction, and no network request has been issued then.
C14_FailsAtConstruction ==
    (pc # "create" /\ MissingCredentials) =>
        /\ storage = "ValueError"
        /\ exit_code = 1
        /\ wr = NoFrame

\* an Alist configuration with a base_url and an empty token was rejected
C14_Witness ==
    /\ storage = "ValueError" /\ storage_type = "alist"
    /\ config.base_url # "" /\ config.token = ""
    /\ wr.calls = 0

\* the success code of each backend: Alist code 200, netdisk errno 0
SuccessCode(st, reply) == IF st = "alist" THEN reply.code = 200 ELSE reply.errno = 0

\* C15: for both backends rename_file returns True exactly when the remote's
\* well-formed answer carries the success code, False for any other
\* well-formed answer, and raises only when every one of its attempts ended in
\* a transport failure.
C15_RenameFileResult ==
    (wr.fn = "rename_file" /\ wr.state \in {"returned", "raised"}) =>
        LET last == wr.replies[Len(wr.replies)]
        IN  /\ wr.state = "returned" =>
                  /\ ~last.transport
                  /\ wr.ret = IF SuccessCode(storage_type, last)
                              THEN "True" ELSE "False"
            /\ wr.state = "raised" =>
                  /\ AllTransport(wr.replies)
                  /\ Len(wr.replies) = DecoratorOf(storage_type).max_attempts
            /\ ~last.transport => wr.state = "returned"

\* on the netdisk one rename returned True and the next one raised after three
\* transport failures
C15_Witness ==
    /\ storage_type = "baidu" /\ pc = "renaming" /\ idx = 1
    /\ results[1].success
    /\ wr.fn = "rename_file" /\ wr.state = "raised" /\ Len(wr.replies) = 3

\* the names in the remote directory
RemoteNames == {remote[k].name : k \in 1..Len(remote)}

\* C16: when a KeyboardInterrupt arrives during apply_changes after i of n
\* changes were processed, every file whose rename succeeded has its new name,
\* every change not yet started has its file under the old name, and nothing
\* is rolled back.
C16_InterruptLeavesPartialState ==
    (exit_code = 130 /\ interrupt \in {"apply", "renaming"}) =>
        /\ Len(results) = idx
        /\ \A k \in 1..Len(results) :
              results[k].success =>
                  /\ results[k].new_name \in RemoteNames
                  /\ results[k].old_name \notin RemoteNames
        /\ \A k \in (Len(rename_calls) + 1)..Len(changes) :
              changes[k][1] \in RemoteNames

\* the interrupt arrived between the two renames of a plan, the first of which
\* had succeeded
C16_Witness ==
    /\ exit_code = 130 /\ interrupt = "apply"
    /\ Len(changes) = 2 /\ idx = 1 /\ Len(rename_calls) = 1
    /\ results[1].success
    /\ changes[1][2] \in RemoteNames /\ changes[2][1] \in RemoteNames

\* the last call to the backend was a listing that failed on the connection
ListingFailed == wr.fn = "list_folders" /\ wr.state = "raised"

\* C17: the exit code of a run is 130 on a user interrupt, 1 on a
\* configuration, connection or other fatal error, and 0 on success or when
\* the user declines, at whichever step the event occurs.
C17_ExitCodes ==
    exit_code # -1 =>
        /\ exit_code \in {0, 1, 130}
        /\ interrupt # "" => exit_code = 130
        /\ (interrupt = "" /\ (storage = "ValueError" \/ ListingFailed)) =>
              exit_code = 1
        /\ (interrupt = "" /\ ~ListingFailed /\ response \in {"n", "EOF"}) =>
              exit_code = 0
        /\ (interrupt = "" /\ changes # <<>> /\ Len(results) = Len(changes)) =>
              exit_code = 0

\* C18: when the result of parse_episode is produced by a one-group rule
\* (rules 4, 5, 6), the returned EpisodeInfo has season 1, whatever else the
\* stem contains.
C18_OneGroupSeasonOne ==
    (pc \in {"parsed", "named"} /\ parsed.info # None) =>
        LET r == parsed.tried[Len(parsed.tried)]
        IN  PATTERNS[r] = 1 => parsed.info.season = 1

\* process_directory is running or has returned, apply_changes has not begun
Planning == pc \in {"scan", "listing", "planned"}

\* C19: planning never mutates the remote: process_directory issues no rename
\* call, and in a run with dry_run set no rename_file call is issued and no
\* remote name changes unless the user answers the prompt with "y" (declining,
\* end-of-input and an empty plan leave the remote as it was).
C19_PlanningDoesNotMutate ==
    /\ [](Planning => (rename_calls = <<>> /\ wr.fn # "rename_file"))
    /\ []((dry_run /\ response # "y") => rename_calls = <<>>)
    /\ [][(Planning \/ (dry_run /\ response' # "y")) => remote' = remote]_vars

\* a dry run planned changes, the user declined, and the files are as listed
C19_Witness ==
    /\ pc = "done" /\ dry_run /\ response = "n"
    /\ changes # <<>> /\ rename_calls = <<>>
    /\ list_files(remote) = files

=============================================================================
